---- MODULE Spec2Model ----
(***************************************************************************)
(* cargo-hakari command dispatch (tools/cargo-hakari/src/command.rs):      *)
(* Command::exec, CommandWithBuilder::exec, write_to_cargo_toml and        *)
(* apply_on_dialog, run against a workspace whose dependency edges,        *)
(* workspace-hack manifest and files persist from one invocation to the    *)
(* next.                                                                    *)
(***************************************************************************)
EXTENDS Integers, Sequences, FiniteSets, TLC

\* ------------------------------------------------------------------ bounds
\* Longest list of -p/--package names given on the command line.
MaxNames == 2
\* Longest generated region, in lines.
MaxLines == 1

\* --------------------------------------------------------------- constants
\* "regular errors exit with 101"
ErrorExit == 101
\* return Ok(102)
UnrecognizedRegistryExit == 102

\* ------------------------------------------------------------- the workspace
\* Workspace packages other than the workspace-hack package, in graph order.
PkgOrder == <<"A", "B", "C">>
Packages == {PkgOrder[i] : i \in 1..Len(PkgOrder)}
\* Names a user can type after -p: the workspace packages and a stranger.
NameChoices == Packages \cup {"missing"}

Lines == {"x", "y"}
SeqsUpTo(S, n) == UNION {[1..k -> S] : k \in 0..n}
\* Possible generated regions computed by the planner.
Generated == SeqsUpTo(Lines, MaxLines)
\* The message written into a disabled Cargo.toml, line by line (the source's
\* backquotes around the command are left out).
DISABLE_MESSAGE ==
    << "",
       "# Disabled by running cargo hakari disable.",
       "# To re-enable, run:",
       "#     cargo hakari generate" >>
Contents == Generated \cup {DISABLE_MESSAGE}

CommandNames ==
    {"init", "generate", "verify", "manage-deps", "remove-deps",
     "explain", "publish", "disable"}
DialogCommands == {"init", "manage-deps", "remove-deps"}

\* -------------------------------------------------------------- operations
NoOp == [kind |-> "none", pkg |-> ""]
NewCrate == [kind |-> "new_crate", pkg |-> ""]
WriteConfig == [kind |-> "write_config", pkg |-> ""]

\* ----------------------------------------------------------------- results
Running == [tag |-> "Running", code |-> -1, err |-> "", op |-> 0]
Ok(c) == [tag |-> "Ok", code |-> c, err |-> "", op |-> 0]
Err(e) == [tag |-> "Err", code |-> ErrorExit, err |-> e, op |-> 0]
ErrAt(e, i) == [tag |-> "Err", code |-> ErrorExit, err |-> e, op |-> i]
UsageError == [tag |-> "Usage", code |-> -1, err |-> "conflict", op |-> 0]
Interrupted == [tag |-> "Interrupted", code |-> -1, err |-> "", op |-> 0]

\* One side effect: a prompt, an applied operation, a manifest write, a rendered
\* diff, the next-steps note or a lock regeneration (ok: whether it succeeded).
Event(e, ok) == [ev |-> e, op |-> NoOp, ok |-> ok]
ApplyEvent(o) == [ev |-> "apply", op |-> o, ok |-> TRUE]

VARIABLES
    \* the workspace, kept from one invocation to the next
    edges,        \* packages with a dependency edge to workspace-hack
    manifest,     \* generated region of the workspace-hack Cargo.toml
    crateExists,  \* the workspace-hack crate skeleton is on disk
    configExists, \* hakari.toml is on disk
    target,       \* what the planner computes for the generated region
    \* the invocation in progress
    pc, cmd, dry_run, yes, diff, skip_config, names,
    ops,          \* the Plan (WorkspaceOps)
    applied,      \* number of operations of the Plan applied so far
    new_contents, \* second argument of write_to_cargo_toml
    log,          \* side effects of this invocation, in order
    ctl,          \* the branch of the controller the invocation has taken
    answer,       \* what the confirmation prompt returned, "none" before it
    result,       \* what Args::exec returned
    pre,          \* the workspace as it was when the invocation began
    fault,        \* which of graph building, configuration loading, generation
                  \* or verification reported a failure, "none" if none did
    selection,    \* what PackageSelection::to_package_set returned
    last          \* the previous invocation, if it converged the workspace

wsVars == <<edges, manifest, crateExists, configExists, target>>
argVars == <<cmd, dry_run, yes, diff, skip_config, names>>
vars == <<edges, manifest, crateExists, configExists, target,
          pc, cmd, dry_run, yes, diff, skip_config, names,
          ops, applied, new_contents, log, ctl, answer, result, pre,
          fault, selection, last>>

Workspace ==
    [edges |-> edges, manifest |-> manifest,
     crateExists |-> crateExists, configExists |-> configExists]

\* ---------------------------------------------------------- pure functions
RECURSIVE OpsFor(_, _, _)
\* One operation of the given kind for each package of s that is in S, in the order of s.
OpsFor(s, S, kind) ==
    IF s = <<>> THEN <<>>
    ELSE (IF Head(s) \in S THEN <<[kind |-> kind, pkg |-> Head(s)]>> ELSE <<>>)
         \o OpsFor(Tail(s), S, kind)

Range(s) == {s[i] : i \in 1..Len(s)}

\* PackageGraph::resolve_workspace_names: every name must be a workspace package.
resolve_workspace_names(ns) ==
    IF Range(ns) \subseteq Packages
    THEN [ok |-> TRUE, set |-> Range(ns)]
    ELSE [ok |-> FALSE, set |-> {}]

\* Slip: the names are resolved even when none is given.
to_package_set_EmptyIsNone(ns) == resolve_workspace_names(ns)
\* Slip: names that are no workspace package are dropped.
to_package_set_DropsUnknown(ns) ==
    IF ns # <<>>
    THEN [ok |-> TRUE, set |-> Range(ns) \cap Packages]
    ELSE [ok |-> TRUE, set |-> Packages]
\* PackageSelection::to_package_set
to_package_set(ns) ==
    IF ns # <<>>
    THEN resolve_workspace_names(ns)
    ELSE [ok |-> TRUE, set |-> Packages]

\* HakariBuilder::manage_dep_ops: add the edge to every selected package that
\* lacks it, remove it from every dependent package left out of the selection.
manage_dep_ops(selected, e) ==
    OpsFor(PkgOrder, selected \ e, "add")
    \o OpsFor(PkgOrder, e \ selected, "remove")

\* HakariBuilder::remove_dep_ops: removals only, for the selected packages.
remove_dep_ops(selected, e) ==
    OpsFor(PkgOrder, selected \cap e, "remove")

\* HakariInit::make_ops: the crate skeleton and, unless skipped, the stub config.
make_ops(skip) ==
    IF skip THEN <<NewCrate>> ELSE <<NewCrate, WriteConfig>>

Max(a, b) == IF a >= b THEN a ELSE b
\* HakariCargoToml::diff_toml: the positions at which the two regions differ.
diff_toml(existing, new) ==
    {i \in 1..Max(Len(existing), Len(new)) :
        \/ i > Len(existing)
        \/ i > Len(new)
        \/ existing[i] # new[i]}

\* HakariCargoToml::is_changed
is_changed(existing, new) == existing # new

\* ------------------------------------------------ decisions of command.rs
\* Slip: the dry-run check is left out.
DryRunReturns_Never(d) == FALSE
\* apply_on_dialog: if dry_run { return Ok(1) }
DryRunReturns(d) == d

\* Slip: the emptiness check is left out, as it is for init.
EmptyReturns_Never(c, o) == FALSE
\* Slip: only the manage-deps arm has the emptiness check.
EmptyReturns_ManageOnly(c, o) == c = "manage-deps" /\ o = <<>>
\* CommandWithBuilder::exec: if ops.is_empty() { return Ok(0) }
EmptyReturns(c, o) == c \in {"manage-deps", "remove-deps"} /\ o = <<>>

\* apply_on_dialog: let should_apply = if yes { true } else { confirm.interact()? }
NeedsPrompt(y) == ~y
\* Slip: the answer is read but not used.
should_apply_Always(y, confirmed) == TRUE
\* Slip: the yes flag is not taken for consent.
should_apply_IgnoresYes(y, confirmed) == confirmed
should_apply(y, confirmed) == IF y THEN TRUE ELSE confirmed

\* Slip: every caller passes the next-steps closure.
AfterHook_NextStepsOnly(c) == "next_steps"
\* The `after` closure each caller hands to apply_on_dialog.
AfterHook(c) == IF c = "init" THEN "next_steps" ELSE "regen"

\* Slip: the error of a failed operation is dropped and applying goes on.
ApplyOutcome_Continues(ok, i) == [pc |-> "applying", result |-> Running]
\* ops.apply()?
ApplyOutcome(ok, i) ==
    IF ok THEN [pc |-> "applying", result |-> Running]
    ELSE [pc |-> "done", result |-> ErrAt("apply", i)]

\* Slip: the hook's error is swallowed.
HookResult_Swallows(ok) == Ok(0)
\* Slip: a failed hook is reported with the pending-changes status.
HookResult_Pending(ok) == IF ok THEN Ok(0) ELSE Ok(1)
\* after()?; Ok(0)   and   regenerate_lockfile(output)?; Ok(0)
HookResult(ok) == IF ok THEN Ok(0) ELSE Err("regen")

\* Slip: the diff is rendered but its hunks are not looked at.
DiffExit_AlwaysZero(hunks) == 0
\* write_to_cargo_toml: if patch.hunks().is_empty() { Ok(0) } else { Ok(1) }
DiffExit(hunks) == IF hunks = {} THEN 0 ELSE 1

\* Slip: the manifest is rewritten whether or not it changed.
NeedsWrite_Always(existing, new) == TRUE
\* Slip: the is_changed test is inverted away and nothing is ever written.
NeedsWrite_Never(existing, new) == FALSE
\* write_to_cargo_toml: if !existing_toml.is_changed(new_contents)
NeedsWrite(existing, new) == is_changed(existing, new)

\* Slip: the write error is dropped and the lock is regenerated anyway.
WriteOutcome_IgnoresError(ok) == [pc |-> "regen", result |-> Running]
\* write_to_cargo_toml: existing_toml.write_to_file(new_contents)?
WriteOutcome(ok) ==
    IF ok THEN [pc |-> "regen", result |-> Running]
    ELSE [pc |-> "done", result |-> Err("write")]

\* Slip: the conflicts_with attributes are left out.
Conflicts_None(d, y) == FALSE
\* clap: dry_run conflicts_with "yes", yes conflicts_with "dry-run"
Conflicts(d, y) == d /\ y

\* Slip: init goes on without a package graph.
GraphOutcome_InitSkipsGraph(ok, c) ==
    IF ok \/ c = "init"
    THEN [pc |-> (IF c = "init" THEN "init" ELSE "config"), result |-> Running]
    ELSE [pc |-> "done", result |-> Err("graph")]
\* Command::exec: build_graph().context("building package graph failed")?
GraphOutcome(ok, c) ==
    IF ok
    THEN [pc |-> (IF c = "init" THEN "init" ELSE "config"), result |-> Running]
    ELSE [pc |-> "done", result |-> Err("graph")]

\* Slip: an unrecognized registry is treated like any other generation error.
TomlOutcome_Fatal(toml) ==
    IF toml = "ok" THEN Running ELSE Err("generate")
\* CommandWithBuilder::exec: match hakari.to_toml_string(&hakari_output)
TomlOutcome(toml) ==
    IF toml = "ok" THEN Running
    ELSE IF toml = "unrecognized" THEN Ok(UnrecognizedRegistryExit)
    ELSE Err("generate")

\* Slip: validation failures are returned as an error.
VerifyResult_Aborts(passed) == IF passed THEN Ok(0) ELSE Err("verify")
\* CommandWithBuilder::exec: match builder.verify() { Ok(()) => Ok(0), Err(errs) => Ok(1) }
VerifyResult(passed) == IF passed THEN Ok(0) ELSE Ok(1)

\* Slip: manage-deps is handed the remove-deps operations.
PlanFor_RemoveOnly(c, sel, e) == remove_dep_ops(sel, e)
\* CommandWithBuilder::exec: builder.manage_dep_ops(..) / builder.remove_dep_ops(.., false)
PlanFor(c, sel, e) ==
    IF c = "manage-deps" THEN manage_dep_ops(sel, e) ELSE remove_dep_ops(sel, e)

\* Slip: an input error falls back to the prompt's default, yes.
AnswerOf_DefaultsOnError(ans) == IF ans = "ioerr" THEN "yes" ELSE ans
\* apply_on_dialog: confirm...default(true).interact().with_context(..)?
AnswerOf(ans) == ans

\* Slip: disable empties the generated region instead of writing the message.
DisableContents_Empty == <<>>
\* CommandWithBuilder::exec: write_to_cargo_toml(existing_toml, DISABLE_MESSAGE, diff, output)
DisableContents == DISABLE_MESSAGE

\* ------------------------------------------------------------------- Init
Unselected == [state |-> "unset", set |-> {}]
NoLast == [cmd |-> "none", set |-> {}]

\* A workspace on which cargo hakari has not run yet: no workspace-hack crate,
\* no dependency edge to it, with or without a hakari.toml.
Init ==
    /\ edges = {}
    /\ manifest = <<>>
    /\ crateExists = FALSE
    /\ configExists \in BOOLEAN
    /\ target \in Generated
    /\ pc = "idle"
    /\ cmd = "init"
    /\ dry_run = FALSE /\ yes = FALSE /\ diff = FALSE /\ skip_config = FALSE
    /\ names = <<>>
    /\ ops = <<>>
    /\ applied = 0
    /\ new_contents = <<>>
    /\ log = <<>>
    /\ ctl = "none"
    /\ answer = "none"
    /\ result = Running
    /\ pre = Workspace
    /\ fault = "none"
    /\ selection = Unselected
    /\ last = NoLast

Finish(r) == pc' = "done" /\ result' = r

\* What the next invocation finds of this one: the command and the packages
\* it selected if it applied a whole Plan or wrote the manifest and returned 0.
LastOf ==
    IF result = Ok(0) /\ ctl = "Applied" /\ cmd \in {"manage-deps", "remove-deps"}
    THEN [cmd |-> cmd, set |-> selection.set]
    ELSE IF result = Ok(0) /\ ctl = "Reconcile" /\ ~diff /\ manifest # pre.manifest
    THEN [cmd |-> cmd, set |-> {}]
    ELSE NoLast

\* ---------------------------------------------------------------- actions
\* Args::parse (clap): the flags each subcommand accepts; dry_run and yes
\* conflict with each other.
ParseArgs ==
    /\ pc = "idle"
    /\ \E c \in CommandNames, d \in BOOLEAN, y \in BOOLEAN, f \in BOOLEAN,
          s \in BOOLEAN, ns \in SeqsUpTo(NameChoices, MaxNames) :
        /\ (d \/ y) => c \in DialogCommands
        /\ f => c \in {"generate", "disable"}
        /\ s => c = "init"
        /\ ns # <<>> => c \in {"manage-deps", "remove-deps"}
        /\ cmd' = c /\ dry_run' = d /\ yes' = y /\ diff' = f
        /\ skip_config' = s /\ names' = ns
        /\ IF Conflicts(d, y)
           THEN Finish(UsageError)
           ELSE pc' = "parsed" /\ result' = Running
    /\ UNCHANGED <<wsVars, ops, applied, new_contents, log, ctl, answer, pre,
                   fault, selection, last>>

\* Command::exec: metadata_command.build_graph().context(..)?
BuildGraph ==
    /\ pc = "parsed"
    /\ \E ok \in BOOLEAN :
        /\ fault' = (IF ok THEN "none" ELSE "graph")
        /\ pc' = GraphOutcome(ok, cmd).pc
        /\ result' = GraphOutcome(ok, cmd).result
    /\ UNCHANGED <<wsVars, argVars, ops, applied, new_contents, log, ctl, answer, pre,
                   selection, last>>

\* Command::exec, Command::Initialize arm up to init.make_ops().
Initialize ==
    /\ pc = "init"
    /\ \E ok \in BOOLEAN :
        IF ok /\ ~crateExists
        THEN /\ ops' = make_ops(skip_config)
             /\ ctl' = "Planned"
             /\ pc' = "dialog" /\ result' = Running
        ELSE /\ UNCHANGED <<ops, ctl>>
             /\ Finish(Err("init"))
    /\ UNCHANGED <<wsVars, argVars, applied, new_contents, log, answer, pre,
                   fault, selection, last>>

\* make_builder_and_output: read, parse and resolve the configuration.
MakeBuilder ==
    /\ pc = "config"
    /\ \E ok \in BOOLEAN :
        IF ok /\ configExists /\ crateExists
        THEN pc' = "builder" /\ result' = Running /\ fault' = "none"
        ELSE Finish(Err("config")) /\ fault' = "config"
    /\ UNCHANGED <<wsVars, argVars, ops, applied, new_contents, log, ctl, answer, pre,
                   selection, last>>

\* CommandWithBuilder::exec, ManageDeps and RemoveDeps arms up to apply_on_dialog.
PlanDeps ==
    /\ pc = "builder"
    /\ cmd \in {"manage-deps", "remove-deps"}
    /\ LET sel == to_package_set(names)
           plan == PlanFor(cmd, sel.set, edges)
       IN  IF ~sel.ok
           THEN /\ UNCHANGED <<ops, ctl>> /\ Finish(Err("select"))
                /\ selection' = [state |-> "unknown", set |-> sel.set]
           ELSE /\ ops' = plan
                /\ selection' = [state |-> "ok", set |-> sel.set]
                /\ IF EmptyReturns(cmd, plan)
                   THEN ctl' = "NoOp" /\ Finish(Ok(0))
                   ELSE ctl' = "Planned" /\ pc' = "dialog" /\ result' = Running
    /\ UNCHANGED <<wsVars, argVars, applied, new_contents, log, answer, pre,
                   fault, last>>

\* apply_on_dialog, up to the point where it applies or waits for the answer.
ApplyOnDialog ==
    /\ pc = "dialog"
    /\ IF DryRunReturns(dry_run)
       THEN ctl' = "DryRunExit" /\ Finish(Ok(1)) /\ log' = log
       ELSE IF NeedsPrompt(yes)
       THEN /\ ctl' = ctl
            /\ pc' = "confirm" /\ result' = Running
            /\ log' = Append(log, Event("prompt", TRUE))
       ELSE IF should_apply(yes, FALSE)
       THEN ctl' = "Applying" /\ pc' = "applying" /\ result' = Running /\ log' = log
       ELSE ctl' = "Declined" /\ Finish(Ok(1)) /\ log' = log
    /\ UNCHANGED <<wsVars, argVars, ops, applied, new_contents, answer, pre,
                   fault, selection, last>>

\* confirm.interact().with_context(..)? : the answer, or an I/O error.
Confirm ==
    /\ pc = "confirm"
    /\ \E ans \in {"yes", "no", "ioerr"} :
        /\ answer' = ans
        /\ IF AnswerOf(ans) = "ioerr"
           THEN ctl' = "InputError" /\ Finish(Err("input"))
           ELSE IF should_apply(yes, AnswerOf(ans) = "yes")
           THEN ctl' = "Applying" /\ pc' = "applying" /\ result' = Running
           ELSE ctl' = "Declined" /\ Finish(Ok(1))
    /\ UNCHANGED <<wsVars, argVars, ops, applied, new_contents, log, pre,
                   fault, selection, last>>

\* The process is interrupted while interact() blocks.
Interrupt ==
    /\ pc = "confirm"
    /\ ctl' = "Interrupted"
    /\ Finish(Interrupted)
    /\ UNCHANGED <<wsVars, argVars, ops, applied, new_contents, log, answer, pre,
                   fault, selection, last>>

\* The effect of one operation of the Plan on the dependency edges.
EdgesAfter(o, e) ==
    IF o.kind = "add" THEN e \cup {o.pkg}
    ELSE IF o.kind = "remove" THEN e \ {o.pkg}
    ELSE e

\* ops.apply()?: the next operation of the Plan, which succeeds or fails.
ApplyOp ==
    /\ pc = "applying"
    /\ applied < Len(ops)
    /\ \E ok \in BOOLEAN :
        LET o == ops[applied + 1]
            out == ApplyOutcome(ok, applied + 1)
        IN  /\ pc' = out.pc
            /\ result' = out.result
            /\ IF ok
               THEN /\ edges' = EdgesAfter(o, edges)
                    /\ crateExists' = (crateExists \/ o.kind = "new_crate")
                    /\ configExists' = (configExists \/ o.kind = "write_config")
                    /\ applied' = applied + 1
                    /\ log' = Append(log, ApplyEvent(o))
                    /\ ctl' = ctl
               ELSE /\ UNCHANGED <<edges, crateExists, configExists, applied, log>>
                    /\ ctl' = "ApplyFailed"
    /\ UNCHANGED <<manifest, target, argVars, ops, new_contents, answer, pre,
                   fault, selection, last>>

\* after()?; Ok(0): the closure the caller passed, once every operation is applied.
After ==
    /\ pc = "applying"
    /\ applied = Len(ops)
    /\ \E ok \in BOOLEAN :
        /\ AfterHook(cmd) = "next_steps" => ok
        /\ log' = Append(log, Event(AfterHook(cmd), ok))
        /\ ctl' = "Applied"
        /\ Finish(HookResult(ok))
    /\ UNCHANGED <<wsVars, argVars, ops, applied, new_contents, answer, pre,
                   fault, selection, last>>

\* CommandWithBuilder::exec, Generate arm up to write_to_cargo_toml.
Generate ==
    /\ pc = "builder"
    /\ cmd = "generate"
    /\ \E toml \in {"ok", "unrecognized", "other"}, read \in BOOLEAN :
        /\ fault' = (IF toml = "ok" THEN "none" ELSE toml)
        /\ IF TomlOutcome(toml) # Running
           THEN Finish(TomlOutcome(toml)) /\ UNCHANGED <<new_contents, ctl>>
           ELSE IF ~read
           THEN Finish(Err("read_toml")) /\ UNCHANGED <<new_contents, ctl>>
           ELSE /\ pc' = "reconcile" /\ result' = Running
                /\ new_contents' = target /\ ctl' = "Reconcile"
    /\ UNCHANGED <<wsVars, argVars, ops, applied, log, answer, pre,
                   selection, last>>

\* CommandWithBuilder::exec, Disable arm up to write_to_cargo_toml.
Disable ==
    /\ pc = "builder"
    /\ cmd = "disable"
    /\ \E read \in BOOLEAN :
        IF ~read
        THEN Finish(Err("read_toml")) /\ UNCHANGED <<new_contents, ctl>>
        ELSE /\ pc' = "reconcile" /\ result' = Running
             /\ new_contents' = DisableContents /\ ctl' = "Reconcile"
    /\ UNCHANGED <<wsVars, argVars, ops, applied, log, answer, pre,
                   fault, selection, last>>

\* write_to_cargo_toml, up to and including write_to_file.
WriteToCargoToml ==
    /\ pc = "reconcile"
    /\ IF diff
       THEN /\ log' = Append(log, Event("diff", TRUE))
            /\ Finish(Ok(DiffExit(diff_toml(manifest, new_contents))))
            /\ manifest' = manifest
       ELSE IF ~NeedsWrite(manifest, new_contents)
       THEN /\ log' = log
            /\ Finish(Ok(0))
            /\ manifest' = manifest
       ELSE \E ok \in BOOLEAN :
            /\ pc' = WriteOutcome(ok).pc
            /\ result' = WriteOutcome(ok).result
            /\ manifest' = (IF ok THEN new_contents ELSE manifest)
            /\ log' = (IF ok THEN Append(log, Event("write", TRUE)) ELSE log)
    /\ UNCHANGED <<edges, crateExists, configExists, target, argVars, ops,
                   applied, new_contents, ctl, answer, pre,
                   fault, selection, last>>

\* write_to_cargo_toml: regenerate_lockfile(output)?; Ok(0)
RegenerateLockfile ==
    /\ pc = "regen"
    /\ \E ok \in BOOLEAN :
        /\ log' = Append(log, Event("regen", ok))
        /\ Finish(HookResult(ok))
    /\ UNCHANGED <<wsVars, argVars, ops, applied, new_contents, ctl, answer, pre,
                   fault, selection, last>>

\* CommandWithBuilder::exec, Verify arm.
Verify ==
    /\ pc = "builder"
    /\ cmd = "verify"
    /\ \E passed \in BOOLEAN :
        /\ fault' = (IF passed THEN "none" ELSE "validation")
        /\ Finish(VerifyResult(passed))
    /\ UNCHANGED <<wsVars, argVars, ops, applied, new_contents, log, ctl, answer, pre,
                   selection, last>>

\* CommandWithBuilder::exec, Explain arm.
Explain ==
    /\ pc = "builder"
    /\ cmd = "explain"
    /\ \E found \in BOOLEAN : Finish(IF found THEN Ok(0) ELSE Err("not_found"))
    /\ UNCHANGED <<wsVars, argVars, ops, applied, new_contents, log, ctl, answer, pre,
                   fault, selection, last>>

\* CommandWithBuilder::exec, Publish arm.
Publish ==
    /\ pc = "builder"
    /\ cmd = "publish"
    /\ \E ok \in BOOLEAN : Finish(IF ok THEN Ok(0) ELSE Err("publish"))
    /\ UNCHANGED <<wsVars, argVars, ops, applied, new_contents, log, ctl, answer, pre,
                   fault, selection, last>>

\* The process has exited; the next invocation starts on the workspace it left.
NextInvocation ==
    /\ pc = "done"
    /\ pc' = "idle"
    /\ cmd' = "init"
    /\ dry_run' = FALSE /\ yes' = FALSE /\ diff' = FALSE /\ skip_config' = FALSE
    /\ names' = <<>>
    /\ ops' = <<>>
    /\ applied' = 0
    /\ new_contents' = <<>>
    /\ log' = <<>>
    /\ ctl' = "none"
    /\ answer' = "none"
    /\ result' = Running
    /\ pre' = Workspace
    /\ fault' = "none"
    /\ selection' = Unselected
    /\ last' = LastOf
    /\ UNCHANGED wsVars

Next ==
    \/ ParseArgs
    \/ BuildGraph
    \/ Initialize
    \/ MakeBuilder
    \/ PlanDeps
    \/ ApplyOnDialog
    \/ Confirm
    \/ Interrupt
    \/ ApplyOp
    \/ After
    \/ Generate
    \/ Disable
    \/ WriteToCargoToml
    \/ RegenerateLockfile
    \/ Verify
    \/ Explain
    \/ Publish
    \/ NextInvocation

Spec == Init /\ [][Next]_vars

\* ------------------------------------------------------ reading the history
Events(e) == {i \in 1..Len(log) : log[i].ev = e}
Prompted == Events("prompt") # {}
RegenInvoked == Events("regen") # {}
RegenFailed == \E i \in Events("regen") : ~log[i].ok
IsApply(x) == x.ev = "apply"
\* The operations applied in this invocation, in the order they were applied.
AppliedOps == [i \in 1..Len(SelectSeq(log, IsApply)) |-> SelectSeq(log, IsApply)[i].op]
Unmutated == Workspace = pre
InApplying == ctl \in {"Applying", "Applied", "ApplyFailed"}

RECURSIVE EdgesAfterAll(_, _)
\* The edges once every operation of the sequence has been applied, in order.
EdgesAfterAll(os, e) ==
    IF os = <<>> THEN e ELSE EdgesAfterAll(Tail(os), EdgesAfter(Head(os), e))

\* The workspace the first n operations of the Plan leave behind.
WorkspaceAfter(n) ==
    [edges |-> EdgesAfterAll(SubSeq(ops, 1, n), pre.edges),
     manifest |-> pre.manifest,
     crateExists |-> (pre.crateExists
                      \/ \E i \in 1..n : ops[i].kind = "new_crate"),
     configExists |-> (pre.configExists
                       \/ \E i \in 1..n : ops[i].kind = "write_config")]

\* ------------------------------------------------------------------ claims

\* C1: init, manage-deps and remove-deps run with dry-run never mutate an edge
\* or a file, never prompt, never apply an operation and never regenerate the
\* lock, whatever the size of the Plan; and once the Plan is computed and is
\* non-empty the command returns exit status 1.
C1_DryRunPurity ==
    (cmd \in DialogCommands /\ dry_run /\ result.tag # "Usage") =>
        /\ Unmutated
        /\ log = <<>>
        /\ applied = 0
        /\ ~InApplying
        /\ (ctl # "none" /\ ops # <<>>) =>
              \/ pc = "dialog" /\ ctl = "Planned"
              \/ pc = "done" /\ ctl = "DryRunExit" /\ result = Ok(1)

C1_Witness ==
    /\ cmd = "manage-deps" /\ dry_run /\ pc = "done"
    /\ Len(ops) = 3
    /\ result = Ok(1)

\* C2: whenever the Plan computed by init, manage-deps or remove-deps is empty
\* the command ends at once with exit status 0, without prompting, applying,
\* mutating or regenerating the lock, whatever dry-run and yes are.
C2_EmptyPlanNoOp ==
    (cmd \in DialogCommands /\ ctl # "none" /\ ops = <<>>) =>
        /\ ctl = "NoOp"
        /\ pc = "done"
        /\ result = Ok(0)
        /\ log = <<>>
        /\ Unmutated

C2_Witness ==
    /\ cmd = "manage-deps" /\ dry_run /\ ctl = "NoOp"
    /\ ops = <<>> /\ pre.edges = Packages
    /\ result = Ok(0)

\* C3: a negative answer to the prompt (non-empty Plan, neither dry-run nor
\* yes) ends the command Declined with exit status 1, the dry-run status, no
\* operation applied, nothing mutated and no lock regeneration.
C3_Declined ==
    answer = "no" =>
        /\ ops # <<>> /\ ~dry_run /\ ~yes
        /\ pc = "done"
        /\ ctl = "Declined"
        /\ result = Ok(1)
        /\ applied = 0 /\ AppliedOps = <<>>
        /\ Unmutated
        /\ ~RegenInvoked /\ Events("next_steps") = {}

C3_Witness ==
    /\ answer = "no" /\ pc = "done" /\ cmd = "manage-deps"
    /\ Len(ops) = 3 /\ result = Ok(1)

\* C4 as stated: ... when every operation succeeds, every operation of the
\* Plan has been executed in Plan order and the exit status is 0.
C4_AppliedExitsZero ==
    (pc = "done" /\ ctl = "Applied") => (AppliedOps = ops /\ result = Ok(0))

\* C4, amended: the controller applies exactly when yes is set (and then the
\* prompt is never issued) or the prompt was answered yes; when every operation
\* succeeds, all of them have been executed, in Plan order, none skipped, and the
\* exit status is 0 unless the post-apply hook fails, in which case the hook's
\* error is returned.
C4_Applying ==
    /\ InApplying => (ops # <<>> /\ ~dry_run /\ (yes \/ answer = "yes"))
    /\ answer = "yes" => InApplying
    /\ (yes /\ ctl \notin {"none", "NoOp", "Planned"}) => InApplying
    /\ yes => (~Prompted /\ answer = "none")
    /\ (~yes /\ InApplying) => Prompted
    /\ InApplying => (AppliedOps = SubSeq(ops, 1, applied)
                      /\ Workspace = WorkspaceAfter(applied))
    /\ ctl = "Applied" =>
          /\ pc = "done"
          /\ applied = Len(ops) /\ AppliedOps = ops
          /\ Workspace = WorkspaceAfter(Len(ops))
          /\ \/ result = Ok(0) /\ ~RegenFailed
             \/ result = Err("regen") /\ RegenFailed

C4_Witness ==
    /\ cmd = "manage-deps" /\ ctl = "Applied" /\ yes
    /\ ops = <<[kind |-> "add", pkg |-> "A"], [kind |-> "add", pkg |-> "B"],
               [kind |-> "remove", pkg |-> "C"]>>
    /\ AppliedOps = ops
    /\ edges = {"A", "B"}
    /\ result = Ok(0)

\* C5 as stated: every run of init, manage-deps or remove-deps that reaches
\* Applied invokes lock regeneration after the last operation.
C5_AppliedRegenerates ==
    ctl = "Applied" => RegenInvoked

\* C5, amended: every run of manage-deps or remove-deps that reaches Applied
\* invokes lock regeneration exactly once, after the last operation and before
\* the command returns; init runs its next-steps hook in that place and never
\* regenerates the lock.
C5_PostApplyHook ==
    /\ (ctl = "Applied" /\ cmd \in {"manage-deps", "remove-deps"}) =>
          /\ Events("regen") = {Len(log)}
          /\ \A i \in Events("apply") : i < Len(log)
          /\ Cardinality(Events("apply")) = Len(ops)
          /\ pc = "done"
    /\ (ctl = "Applied" /\ cmd = "init") =>
          /\ Events("next_steps") = {Len(log)}
          /\ ~RegenInvoked
    /\ (cmd \in DialogCommands /\ RegenInvoked) => ctl = "Applied"

C5_Witness ==
    /\ ctl = "Applied" /\ cmd = "remove-deps" /\ ~yes
    /\ Len(ops) = 2
    /\ Events("regen") = {Len(log)}
    /\ log[Len(log)].ok

\* C6: when an operation fails while the Plan is applied, no later operation
\* is applied, the post-apply hook is not run, the command ends ApplyFailed with
\* that operation's error, never with exit status 0 or 1, and the operations
\* applied before it stay applied.
C6_ApplyFailed ==
    ctl = "ApplyFailed" =>
        /\ pc = "done"
        /\ applied < Len(ops)
        /\ result = ErrAt("apply", applied + 1)
        /\ result.code \notin {0, 1}
        /\ AppliedOps = SubSeq(ops, 1, applied)
        /\ Workspace = WorkspaceAfter(applied)
        /\ ~RegenInvoked /\ Events("next_steps") = {}

C6_Witness ==
    /\ ctl = "ApplyFailed" /\ cmd = "manage-deps"
    /\ Len(ops) = 3 /\ applied = 1
    /\ edges # pre.edges

\* C7: when lock regeneration fails after the Plan was fully applied or after
\* the manifest was written, what was applied or written stays in place and the
\* command does not return what it returns when regeneration succeeds.
C7_RegenFailureReported ==
    RegenFailed =>
        /\ pc = "done"
        /\ result # Ok(0)
        /\ result = Err("regen")
        /\ cmd \in {"manage-deps", "remove-deps"} =>
              (applied = Len(ops) /\ Workspace = WorkspaceAfter(Len(ops))
               /\ Workspace # pre)
        /\ cmd \in {"generate", "disable"} =>
              (manifest = new_contents /\ manifest # pre.manifest)

C7_Witness ==
    /\ RegenFailed /\ cmd = "generate"
    /\ manifest = target /\ pre.manifest # target

\* C8: generate and disable run with the diff flag never write the manifest
\* and never regenerate the lock; once the diff is computed the exit status is
\* 0 if it has no hunk and 1 otherwise.
C8_DiffOnly ==
    (cmd \in {"generate", "disable"} /\ diff) =>
        /\ Unmutated
        /\ Events("write") = {} /\ ~RegenInvoked
        /\ Events("diff") # {} =>
              /\ pc = "done"
              /\ diff_toml(manifest, new_contents) = {} => result = Ok(0)
              /\ diff_toml(manifest, new_contents) # {} => result = Ok(1)

C8_Witness ==
    /\ cmd = "disable" /\ diff /\ pc = "done"
    /\ Events("diff") # {}
    /\ manifest # DISABLE_MESSAGE
    /\ result = Ok(1)

\* C9: generate without the diff flag on a manifest whose generated region
\* already equals the computed contents exits 0, writes nothing and does not
\* regenerate the lock.
C9_GenerateUnchanged ==
    (cmd = "generate" /\ ~diff /\ ctl = "Reconcile" /\ pre.manifest = new_contents) =>
        /\ pc \in {"reconcile", "done"}
        /\ pc = "done" => result = Ok(0)
        /\ log = <<>>
        /\ Unmutated

C9_Witness ==
    /\ cmd = "generate" /\ ~diff /\ ctl = "Reconcile" /\ pc = "done"
    /\ pre.manifest = target /\ target # <<>>
    /\ result = Ok(0)

\* C10 as stated: in non-diff reconcile with changed contents the contents
\* are written, the lock is regenerated once afterwards and the exit status is 0.
C10_WrittenExitsZero ==
    (ctl = "Reconcile" /\ ~diff /\ pc = "done" /\ Events("write") # {}) =>
        (Cardinality(Events("regen")) = 1 /\ result = Ok(0))

\* C10, amended: in non-diff reconcile with changed contents the new contents
\* are written first and lock regeneration is invoked only afterwards, exactly
\* once; the exit status is 0 when the write and the regeneration both succeed,
\* and the error of the one that failed otherwise; the lock is never
\* regenerated in a run whose write did not happen or failed.
C10_WriteThenRegen ==
    (ctl = "Reconcile" /\ ~diff) =>
        /\ RegenInvoked => (Events("write") = {1} /\ Events("regen") = {2})
        /\ Events("write") # {} => manifest = new_contents
        /\ pre.manifest = new_contents => log = <<>>
        /\ (pc = "done" /\ pre.manifest # new_contents) =>
              \/ /\ result = Ok(0)
                 /\ log = <<Event("write", TRUE), Event("regen", TRUE)>>
                 /\ manifest = new_contents
              \/ /\ result = Err("regen")
                 /\ log = <<Event("write", TRUE), Event("regen", FALSE)>>
                 /\ manifest = new_contents
              \/ /\ result = Err("write")
                 /\ log = <<>>
                 /\ manifest = pre.manifest

C10_Witness ==
    /\ ctl = "Reconcile" /\ ~diff /\ pc = "done" /\ cmd = "disable"
    /\ pre.manifest # DISABLE_MESSAGE /\ manifest = DISABLE_MESSAGE
    /\ log = <<Event("write", TRUE), Event("regen", TRUE)>>
    /\ result = Ok(0)

\* C11: when generation fails with UnrecognizedRegistry, generate returns 102
\* as a normal outcome, with or without the diff flag, without reading or
\* writing the manifest and without lock regeneration, so the manifest is as it
\* was; any other generation failure is an error and never 102.
C11_UnrecognizedRegistry ==
    /\ fault = "unrecognized" =>
          /\ cmd = "generate" /\ pc = "done"
          /\ result = Ok(UnrecognizedRegistryExit)
          /\ ctl = "none" /\ log = <<>>
          /\ Unmutated
    /\ fault = "other" =>
          /\ cmd = "generate" /\ pc = "done"
          /\ result.tag = "Err" /\ result.code # UnrecognizedRegistryExit
          /\ log = <<>> /\ Unmutated
    /\ result.code = UnrecognizedRegistryExit => fault = "unrecognized"

C11_Witness ==
    /\ fault = "unrecognized" /\ diff /\ pc = "done"
    /\ manifest # target
    /\ result = Ok(UnrecognizedRegistryExit)

\* The packages the invocation selected, read off its arguments.
Selected == IF names = <<>> THEN Packages ELSE Range(names)
HasOp(kind, p) == \E i \in 1..Len(ops) : ops[i] = [kind |-> kind, pkg |-> p]

\* C12: once manage-deps or remove-deps has applied its whole Plan, or generate
\* or disable has written the manifest, and returned 0, the same command on the
\* same selection finds nothing to do: its Plan is empty (or the contents are
\* unchanged), it returns 0 and mutates nothing.
C12_Idempotence ==
    /\ (last.cmd \in {"manage-deps", "remove-deps"} /\ cmd = last.cmd
        /\ selection.state = "ok" /\ selection.set = last.set) =>
          /\ ops = <<>>
          /\ ctl = "NoOp" /\ pc = "done" /\ result = Ok(0)
          /\ log = <<>> /\ Unmutated
    /\ (last.cmd \in {"generate", "disable"} /\ cmd = last.cmd
        /\ ~diff /\ ctl = "Reconcile") =>
          /\ pc \in {"reconcile", "done"}
          /\ pc = "done" => result = Ok(0)
          /\ log = <<>> /\ Unmutated

C12_Witness ==
    /\ last = [cmd |-> "remove-deps", set |-> {"A", "B"}]
    /\ cmd = "remove-deps" /\ selection.set = {"A", "B"}
    /\ dry_run /\ ctl = "NoOp" /\ result = Ok(0)

C15_Selection ==
    selection.state # "unset" =>
        /\ names = <<>> => (selection.state = "ok" /\ selection.set = Packages)
        /\ (names # <<>> /\ Range(names) \subseteq Packages) =>
              (selection.state = "ok" /\ selection.set = Range(names))
        /\ (\E i \in 1..Len(names) : names[i] \notin Packages) =>
              /\ selection.state = "unknown"
              /\ pc = "done" /\ result = Err("select")
              /\ ops = <<>> /\ ctl = "none"
              /\ log = <<>> /\ Unmutated

C15_Witness ==
    /\ selection.state = "unknown" /\ names = <<"A", "missing">>
    /\ edges # {} /\ result = Err("select")

\* C16: a failure to build the package graph ends every command, init
\* included, before any step of the command; a failure to load the
\* configuration ends every builder command before its Plan is computed; in
\* both cases nothing is prompted, mutated or regenerated.
C16_EarlyAbort ==
    /\ fault = "graph" =>
          /\ pc = "done" /\ result = Err("graph")
          /\ ctl = "none" /\ ops = <<>> /\ selection = Unselected
          /\ new_contents = <<>>
          /\ log = <<>> /\ Unmutated
    /\ fault = "config" =>
          /\ cmd # "init"
          /\ pc = "done" /\ result = Err("config")
          /\ ctl = "none" /\ ops = <<>> /\ selection = Unselected
          /\ new_contents = <<>>
          /\ log = <<>> /\ Unmutated
    /\ pc \in {"init", "config"} => fault = "none"

C16_Witness ==
    /\ fault = "graph" /\ cmd = "init" /\ yes /\ ~crateExists
    /\ result = Err("graph")

\* C17: an invocation of init, manage-deps or remove-deps with dry-run and yes
\* both set is rejected when the arguments are parsed, before the graph is
\* built: the controller is never entered and nothing is mutated.
C17_DryRunYesExclusive ==
    (dry_run /\ yes) =>
        /\ pc = "done" /\ result = UsageError
        /\ ctl = "none" /\ fault = "none" /\ ops = <<>>
        /\ log = <<>> /\ Unmutated

C17_Witness ==
    /\ dry_run /\ yes /\ cmd = "manage-deps" /\ names = <<"A">>
    /\ result = UsageError

C19_ExitCodes ==
    /\ pc = "done" <=> result # Running
    /\ result.tag = "Ok" =>
          /\ cmd \in DialogCommands => result.code \in {0, 1}
          /\ cmd = "generate" => result.code \in {0, 1, UnrecognizedRegistryExit}
          /\ cmd = "disable" => result.code \in {0, 1}
          /\ (cmd \in {"generate", "disable"} /\ result.code = 1) => diff
          /\ cmd = "verify" => result.code = (IF fault = "validation" THEN 1 ELSE 0)
          /\ cmd \in {"explain", "publish"} => result.code = 0
    /\ (cmd = "verify" /\ fault = "validation") => result = Ok(1)
    /\ result.tag = "Err" => result.code = ErrorExit

C19_Witness ==
    /\ cmd = "verify" /\ fault = "validation" /\ pc = "done"
    /\ result = Ok(1)

\* C20: in init, manage-deps and remove-deps nothing is mutated, applied or
\* regenerated unless yes was set or the prompt was answered yes; when the
\* prompt fails with an I/O error or the run is interrupted while it waits, the
\* command ends with no operation applied and no lock regeneration.
C20_NoMutationBeforeApplying ==
    /\ (cmd \in DialogCommands
        /\ (~Unmutated \/ applied > 0 \/ Events("apply") # {} \/ RegenInvoked
            \/ Events("next_steps") # {})) =>
          (InApplying /\ (yes \/ answer = "yes"))
    /\ answer = "ioerr" =>
          /\ pc = "done" /\ ctl = "InputError" /\ result = Err("input")
          /\ applied = 0 /\ Unmutated /\ ~RegenInvoked
    /\ ctl = "Interrupted" =>
          /\ pc = "done" /\ result = Interrupted
          /\ applied = 0 /\ Unmutated /\ ~RegenInvoked

C20_Witness ==
    /\ answer = "ioerr" /\ cmd = "manage-deps" /\ Len(ops) = 3
    /\ pc = "done" /\ result = Err("input")

\* C21 as stated: disable without the diff flag on a manifest that differs
\* from the placeholder leaves the generated region equal to the placeholder,
\* regenerates the lock and exits 0.
C21_DisableExitsZero ==
    (cmd = "disable" /\ ~diff /\ ctl = "Reconcile" /\ pc = "done"
     /\ pre.manifest # DISABLE_MESSAGE) =>
        (manifest = DISABLE_MESSAGE /\ RegenInvoked /\ result = Ok(0))

\* C21, amended: disable without the diff flag on a manifest that differs from
\* the placeholder writes the placeholder over the generated region, leaving
\* none of the earlier contents, then regenerates the lock, and exits 0 when
\* the write and the regeneration both succeed (the error of the one that
\* failed otherwise, the manifest untouched if it was the write); a later
\* generate without the diff flag on the disabled manifest, its computed
\* contents not being the placeholder, detects the change and writes again.
C21_DisableThenGenerate ==
    /\ (cmd = "disable" /\ ~diff /\ ctl = "Reconcile" /\ pc = "done"
        /\ pre.manifest # DISABLE_MESSAGE) =>
          \/ /\ result = Err("write")
             /\ manifest = pre.manifest /\ log = <<>>
          \/ /\ manifest = DISABLE_MESSAGE
             /\ Range(manifest) \cap Range(pre.manifest) = {}
             /\ \/ /\ result = Ok(0)
                   /\ log = <<Event("write", TRUE), Event("regen", TRUE)>>
                \/ /\ result = Err("regen")
                   /\ log = <<Event("write", TRUE), Event("regen", FALSE)>>
    /\ (cmd = "generate" /\ ~diff /\ ctl = "Reconcile" /\ pc # "reconcile"
        /\ pre.manifest = DISABLE_MESSAGE /\ new_contents # DISABLE_MESSAGE) =>
          \/ result = Err("write") /\ manifest = pre.manifest
          \/ /\ Events("write") = {1}
             /\ manifest = new_contents /\ manifest # DISABLE_MESSAGE

C21_Witness ==
    /\ last = [cmd |-> "disable", set |-> {}]
    /\ cmd = "generate" /\ ~diff /\ pc = "done"
    /\ pre.manifest = DISABLE_MESSAGE
    /\ manifest = target /\ target # <<>>
    /\ result = Ok(0)
====
